---- MODULE Spec2Model ----
(***************************************************************************)
(* A model of reddit.py: the keyword collection over the configured        *)
(* subreddits, the AI scoring and ranking of the matches, and the delivery *)
(* of the selected posts to Slack.                                         *)
(*                                                                         *)
(* Strings are sequences of one-character strings, so that lower-casing,   *)
(* substring containment, digit filtering and integer parsing are computed *)
(* character by character as Python computes them.                         *)
(***************************************************************************)
EXTENDS Integers, Sequences, FiniteSets, TLC

\* ------------------------------------------------------------------------
\* Bounds of the model
\* ------------------------------------------------------------------------

\* how many of the configured subreddits a run scans
NumSubs == 2

\* how many hot posts exist, in total, over the scanned subreddits
MaxPosts == 3

\* longest candidate list handed directly to filter_with_ai
MaxCands == 4

\* largest max_results handed directly to filter_with_ai
MaxCap == 3

\* the value of MAX_POSTS_PER_DAY in a run configured with a cap that the
\* posts of the model can exceed
RunCap == 2

\* ------------------------------------------------------------------------
\* Configuration (reddit.py, lines 21-45)
\* ------------------------------------------------------------------------

POST_LIMIT == 20

MAX_POSTS_PER_DAY == 10

\* the head of the SUBREDDITS list
AllSubs == <<"Netherlands", "Belgium", "France", "Sweden", "Denmark", "Europe">>

SUBREDDITS == SubSeq(AllSubs, 1, NumSubs)

\* two entries of the KEYWORDS list; every entry of that list is lower-case
KEYWORDS == { <<"a", "r", "t">>, <<"r", "u", "g">> }

\* ------------------------------------------------------------------------
\* Python string operations
\* ------------------------------------------------------------------------

UpperChars ==
    <<"A", "B", "C", "D", "E", "F", "G", "H", "I", "J", "K", "L", "M",
      "N", "O", "P", "Q", "R", "S", "T", "U", "V", "W", "X", "Y", "Z">>

LowerChars ==
    <<"a", "b", "c", "d", "e", "f", "g", "h", "i", "j", "k", "l", "m",
      "n", "o", "p", "q", "r", "s", "t", "u", "v", "w", "x", "y", "z">>

\* the lower-case letter of every upper-case letter
LowerOf ==
    [ c \in {UpperChars[n] : n \in 1..Len(UpperChars)} |->
        LowerChars[CHOOSE n \in 1..Len(UpperChars) : UpperChars[n] = c] ]

LowerChar(c) == IF c \in DOMAIN LowerOf THEN LowerOf[c] ELSE c

\* str.lower()
Lower(s) == [n \in 1..Len(s) |-> LowerChar(s[n])]

\* the Python test `kw in text` on strings
Contains(kw, text) ==
    \E start \in 0..(Len(text) - Len(kw)) :
        SubSeq(text, start + 1, start + Len(kw)) = kw

\* ------------------------------------------------------------------------
\* Fetch & filter by keyword (reddit.py, lines 72-88)
\* ------------------------------------------------------------------------

\* f"{post.title} {post.selftext}".lower()
PostText(post) == Lower(post.title \o <<" ">> \o post.selftext)

\* any(keyword in text for keyword in keywords)
AnyKeywordIn(text, kws) == \E keyword \in kws : Contains(keyword, text)

\* the dict appended to matches
MakeMatch(post, subreddit_name) ==
    [ title     |-> post.title,
      subreddit |-> subreddit_name,
      url       |-> post.url,
      permalink |-> <<"https://reddit.com">> \o post.permalink,
      text      |-> PostText(post) ]

\* subreddit.hot(limit=POST_LIMIT): at most POST_LIMIT posts of the listing
HotListing(hot) ==
    SubSeq(hot, 1, IF Len(hot) < POST_LIMIT THEN Len(hot) ELSE POST_LIMIT)

\* fetch_matching_posts: `seen` posts of the listing are iterated before the
\* loop ends, normally (seen = length of the listing) or by an exception that
\* the except clause logs; `matches` is returned in both cases.
fetch_matching_posts(hot, seen, subreddit_name, kws) ==
    LET iterated == SubSeq(HotListing(hot), 1, seen)
        matching == SelectSeq(iterated, LAMBDA post : AnyKeywordIn(PostText(post), kws))
    IN  [n \in 1..Len(matching) |-> MakeMatch(matching[n], subreddit_name)]

\* matches whose permalink is already collected are dropped
ExtendWithoutDuplicates(collected, matches) ==
    collected \o SelectSeq(matches,
                   LAMBDA m : \A n \in 1..Len(collected) :
                                 collected[n].permalink # m.permalink)

\* line 154: all_matches.extend(matches)
Extend(collected, matches) == collected \o matches

\* the exception of a failed fetch leaves main
FetchErrorPropagates(failed) == IF failed THEN "Done" ELSE "Collecting"

\* the exception of a failed fetch is caught nowhere and ends the process
FetchErrorEndsProcess(failed) == IF failed THEN "Crashed" ELSE "Collecting"

\* lines 86-88: the except clause logs the error and main's loop goes on with
\* the next subreddit, whether the fetch failed or not
AfterFetch(failed) == "Collecting"

\* ------------------------------------------------------------------------
\* AI filtering (reddit.py, lines 94-122)
\* ------------------------------------------------------------------------

\* what openai.chat.completions.create can do: raise, answer with no content
\* (message.content is None), or answer with a text; the one-element string
\* "sup2" stands for the character SUPERSCRIPT TWO (U+00B2)
OracleRaises == [kind |-> "raise", content |-> <<>>]

OracleSaysNothing == [kind |-> "none", content |-> <<>>]

OracleSays(content) == [kind |-> "text", content |-> content]

\* no request has been made, or filter_with_ai has returned
NoResponse == [kind |-> "unasked", content |-> <<>>]

OracleReplies ==
    { OracleRaises,
      OracleSaysNothing,
      OracleSays(<<>>),
      OracleSays(<<"n", "/", "a">>),
      OracleSays(<<"0">>),
      OracleSays(<<" ", "7", "\n">>),
      OracleSays(<<"7", "/", "1", "0">>),
      OracleSays(<<"0", "7">>),
      OracleSays(<<"-", "7">>),
      OracleSays(<<"7", "sup2">>) }

Whitespace == {" ", "\n", "\t"}

RECURSIVE LStrip(_)
LStrip(s) ==
    IF s # <<>> /\ Head(s) \in Whitespace THEN LStrip(Tail(s)) ELSE s

RECURSIVE RStrip(_)
RStrip(s) ==
    IF s # <<>> /\ s[Len(s)] \in Whitespace
    THEN RStrip(SubSeq(s, 1, Len(s) - 1))
    ELSE s

\* str.strip()
Strip(s) == RStrip(LStrip(s))

DigitChars == <<"0", "1", "2", "3", "4", "5", "6", "7", "8", "9">>

\* the characters int() reads as decimal digits
IsDecimal(c) == \E n \in 1..Len(DigitChars) : DigitChars[n] = c

\* characters for which str.isdigit is true and which int() rejects
OtherDigitChars == {"sup2"}

\* str.isdigit
IsDigit(c) == IsDecimal(c) \/ c \in OtherDigitChars

DigitValue(c) == (CHOOSE n \in 1..Len(DigitChars) : DigitChars[n] = c) - 1

\* only the first digit of the answer is read
ParseIntFirstDigit(digits) == DigitValue(digits[1])

\* int() of a non-empty string of decimal digits
RECURSIVE ParseInt(_)
ParseInt(digits) ==
    IF digits = <<>>
    THEN 0
    ELSE 10 * ParseInt(SubSeq(digits, 1, Len(digits) - 1))
         + DigitValue(digits[Len(digits)])

\* a request that failed gives the candidate the score 1
ScoreFailureGivesOne(reply) ==
    IF reply.kind # "text"
    THEN 1
    ELSE LET digits == SelectSeq(Strip(reply.content), IsDigit)
         IN  IF digits = <<>> \/ \E n \in 1..Len(digits) : ~IsDecimal(digits[n])
             THEN 1
             ELSE ParseInt(digits)

\* score_post_with_ai, given what the oracle does with the request: an
\* exception of the request, the AttributeError of None.strip() and the
\* ValueError of int() when the filtered answer is empty or holds a character
\* that is no decimal digit are caught and give 0.
score_post_with_ai(reply) ==
    IF reply.kind # "text"
    THEN 0
    ELSE LET score_text == Strip(reply.content)
             digits     == SelectSeq(score_text, IsDigit)
         IN  IF digits = <<>> \/ \E n \in 1..Len(digits) : ~IsDecimal(digits[n])
             THEN 0
             ELSE ParseInt(digits)

\* `if score >= 0` in place of `if score > 0`
AppendScoredAlsoZero(scored, score, post) ==
    Append(scored, [score |-> score, post |-> post])

\* `if score > 0: scored.append((score, post))`; a post is named by its
\* position in the list handed to filter_with_ai
AppendScored(scored, score, post) ==
    IF score > 0
    THEN Append(scored, [score |-> score, post |-> post])
    ELSE scored

\* an ascending sort that is then reversed: equal keys end up in reverse order
InsertDescUnstable(sorted, e) ==
    LET before == Cardinality({n \in 1..Len(sorted) : sorted[n].score > e.score})
    IN  SubSeq(sorted, 1, before) \o <<e>> \o SubSeq(sorted, before + 1, Len(sorted))

\* where a stable descending sort puts e among the already sorted elements:
\* behind every element whose key is greater or equal
InsertDesc(sorted, e) ==
    LET before == Cardinality({n \in 1..Len(sorted) : sorted[n].score >= e.score})
    IN  SubSeq(sorted, 1, before) \o <<e>> \o SubSeq(sorted, before + 1, Len(sorted))

\* the sort left out
SortDescNotDone(s) == s

\* scored.sort(reverse=True, key=lambda x: x[0]): list.sort is stable, also
\* with reverse=True
RECURSIVE SortDesc(_)
SortDesc(s) ==
    IF s = <<>>
    THEN <<>>
    ELSE InsertDesc(SortDesc(SubSeq(s, 1, Len(s) - 1)), s[Len(s)])

\* the slice s[:n + 1]
SliceToOneMore(s, n) == SubSeq(s, 1, IF n + 1 < Len(s) THEN n + 1 ELSE Len(s))

\* the Python slice s[:n]
SliceTo(s, n) ==
    IF n >= 0
    THEN SubSeq(s, 1, IF n < Len(s) THEN n ELSE Len(s))
    ELSE SubSeq(s, 1, IF Len(s) + n > 0 THEN Len(s) + n ELSE 0)

\* [p for _, p in scored[:max_results]] after the sort
RankAndCut(scored, cap) ==
    LET top == SliceTo(SortDesc(scored), cap)
    IN  [n \in 1..Len(top) |-> top[n].post]

\* ------------------------------------------------------------------------
\* Slack integration (reddit.py, lines 128-140)
\* ------------------------------------------------------------------------

\* what requests.post can do: answer 200, answer another status, or raise
PostOutcomes == {"200", "non200", "raise"}

\* a delivery that did not succeed is tried again
AfterPostRetries(i, outcome) == IF outcome = "200" THEN i + 1 ELSE i

\* lines 135-140: a status other than 200 and an exception are logged, and the
\* loop goes on with the next post
AfterPost(i, outcome) == i + 1

\* ------------------------------------------------------------------------
\* The world: what the subreddits hold
\* ------------------------------------------------------------------------

PostPool ==
    { [ title     |-> <<"A", "r", "t">>,
        selftext  |-> <<>>,
        url       |-> "u1",
        permalink |-> <<"/r/p1">> ],
      [ title     |-> <<"H", "i">>,
        selftext  |-> <<>>,
        url       |-> "u2",
        permalink |-> <<"/r/p2">> ],
      [ title     |-> <<"o", "l", "d">>,
        selftext  |-> <<"R", "U", "G">>,
        url       |-> "u3",
        permalink |-> <<"/r/p3">> ] }

\* the hot listings of at most n posts: a listing holds a post once
Listings(n) ==
    UNION { { hot \in [1..len -> PostPool] :
                \A a, b \in 1..len : a # b => hot[a] # hot[b] } : len \in 0..n }

\* ------------------------------------------------------------------------
\* State
\* ------------------------------------------------------------------------

VARIABLES
    pc,             \* where main() is
    creds,          \* the Reddit credentials the environment holds
    crashed,        \* an exception has left main() and ended the process
    keywords,       \* the keywords parameter of fetch_matching_posts
    max_results,    \* the max_results parameter of filter_with_ai
    sub_i,          \* main's loop over SUBREDDITS: index of the next one
    fetchLog,       \* one record per call of fetch_matching_posts: what the
                    \* subreddit held and how the fetch went
    all_matches,    \* main's all_matches
    score_i,        \* filter_with_ai's loop over posts: index of the next one
    scores,         \* what score_post_with_ai returned, one entry per call
    response,       \* what the oracle did with the latest request
    scored,         \* filter_with_ai's scored
    filtered_posts, \* the list filter_with_ai returns (positions in all_matches)
    send_i,         \* send_to_slack's loop over posts: index of the next one
    attempts,       \* one record per call of requests.post
    reported        \* the number in the "Sent N filtered post(s)" line, -1: none

vars ==
    << pc, creds, crashed, keywords, max_results, sub_i, fetchLog, all_matches, score_i,
       scores, response, scored, filtered_posts, send_i, attempts, reported >>

collectVars == << sub_i, fetchLog, all_matches >>

scoreVars == << score_i, scores, response, scored, filtered_posts >>

sendVars == << send_i, attempts, reported >>

\* number of hot posts met so far
PostsSoFar ==
    LET RECURSIVE Sum(_)
        Sum(n) == IF n = 0 THEN 0 ELSE Sum(n - 1) + Len(fetchLog[n].hot)
    IN  Sum(Len(fetchLog))

\* what the environment variables REDDIT_CLIENT_ID, REDDIT_CLIENT_SECRET and
\* REDDIT_USER_AGENT can hold (lines 13-15): credentials Reddit accepts,
\* credentials Reddit rejects, or nothing (os.getenv returns None)
Credentials == {"valid", "invalid", "missing"}

Init ==
    /\ pc = "Idle"
    /\ creds \in Credentials
    /\ crashed = FALSE
    /\ keywords = KEYWORDS
    /\ max_results = MAX_POSTS_PER_DAY
    /\ sub_i = 1
    /\ fetchLog = <<>>
    /\ all_matches = <<>>
    /\ score_i = 1
    /\ scores = <<>>
    /\ response = NoResponse
    /\ scored = <<>>
    /\ filtered_posts = <<>>
    /\ send_i = 1
    /\ attempts = <<>>
    /\ reported = -1

\* ------------------------------------------------------------------------
\* main (reddit.py, lines 146-166)
\* ------------------------------------------------------------------------

\* create_reddit_instance (lines 61-66): praw.Reddit(...) raises when a
\* required setting is None, and makes no request to Reddit: credentials that
\* Reddit rejects are found out by the first request of a fetch
create_reddit_instance(c) == IF c = "missing" THEN "raises" ELSE "reddit"

\* lines 147-149
Start ==
    /\ pc = "Idle"
    /\ ~crashed
    /\ create_reddit_instance(creds) = "reddit"
    /\ pc' = "Collecting"
    /\ UNCHANGED << creds, crashed, keywords, max_results, collectVars, scoreVars, sendVars >>

\* line 148: the exception of create_reddit_instance is caught nowhere and
\* ends the process before the loop over SUBREDDITS
SetupFails ==
    /\ pc = "Idle"
    /\ ~crashed
    /\ create_reddit_instance(creds) = "raises"
    /\ crashed' = TRUE
    /\ UNCHANGED << pc, creds, keywords, max_results, collectVars, scoreVars, sendVars >>

\* lines 151-154: one pass of the loop, with the whole of
\* fetch_matching_posts; with credentials that Reddit rejects the first
\* request of the fetch raises, inside the try block
FetchSub ==
    /\ pc = "Collecting"
    /\ sub_i <= Len(SUBREDDITS)
    /\ \E hot \in Listings(MaxPosts - PostsSoFar) :
       \E failed \in BOOLEAN :
       \E seen \in 0..Len(HotListing(hot)) :
          /\ ~failed => seen = Len(HotListing(hot))
          /\ creds = "invalid" => (failed /\ seen = 0)
          /\ LET matches == fetch_matching_posts(hot, seen, SUBREDDITS[sub_i], keywords)
             IN  /\ all_matches' = Extend(all_matches, matches)
                 /\ fetchLog' = Append(fetchLog,
                                  [ sub     |-> SUBREDDITS[sub_i],
                                    hot     |-> hot,
                                    failed  |-> failed,
                                    seen    |-> seen ])
          /\ pc' = AfterFetch(failed)
    /\ sub_i' = sub_i + 1
    /\ UNCHANGED << creds, crashed, keywords, max_results, scoreVars, sendVars >>

\* lines 156-158
NoMatches ==
    /\ pc = "Collecting"
    /\ sub_i > Len(SUBREDDITS)
    /\ all_matches = <<>>
    /\ pc' = "Done"
    /\ UNCHANGED << creds, crashed, keywords, max_results, collectVars, scoreVars, sendVars >>

\* line 160: the call of filter_with_ai
CallFilter ==
    /\ pc = "Collecting"
    /\ sub_i > Len(SUBREDDITS)
    /\ all_matches # <<>>
    /\ pc' = "Scoring"
    /\ UNCHANGED << creds, crashed, keywords, max_results, collectVars, scoreVars, sendVars >>

\* lines 117-120: one pass of the loop, with the whole of score_post_with_ai
ScoreOne ==
    /\ pc = "Scoring"
    /\ score_i <= Len(all_matches)
    /\ \E reply \in OracleReplies :
          LET score == score_post_with_ai(reply)
          IN  /\ response' = reply
              /\ scores' = Append(scores, score)
              /\ scored' = AppendScored(scored, score, score_i)
    /\ score_i' = score_i + 1
    /\ UNCHANGED << pc, creds, crashed, keywords, max_results, collectVars, filtered_posts, sendVars >>

\* lines 121-122
Rank ==
    /\ pc = "Scoring"
    /\ score_i > Len(all_matches)
    /\ filtered_posts' = RankAndCut(scored, max_results)
    /\ response' = NoResponse
    /\ pc' = "Selecting"
    /\ UNCHANGED << creds, crashed, keywords, max_results, collectVars, score_i, scores, scored, sendVars >>

\* lines 162-163: the call of send_to_slack
CallSend ==
    /\ pc = "Selecting"
    /\ filtered_posts # <<>>
    /\ pc' = "Notifying"
    /\ UNCHANGED << creds, crashed, keywords, max_results, collectVars, scoreVars, sendVars >>

\* an empty selection sends the run back to score the candidates again
NoneSelectedScoresAgain ==
    /\ pc = "Selecting"
    /\ filtered_posts = <<>>
    /\ pc' = "Scoring"
    /\ score_i' = 1
    /\ scores' = <<>>
    /\ scored' = <<>>
    /\ UNCHANGED << creds, crashed, keywords, max_results, collectVars, response, filtered_posts, sendVars >>

\* lines 165-166
NoneSelected ==
    /\ pc = "Selecting"
    /\ filtered_posts = <<>>
    /\ pc' = "Done"
    /\ UNCHANGED << creds, crashed, keywords, max_results, collectVars, scoreVars, sendVars >>

\* lines 129-140: one pass of the loop
SendOne ==
    /\ pc = "Notifying"
    /\ send_i <= Len(filtered_posts)
    /\ \E outcome \in PostOutcomes :
          /\ attempts' = Append(attempts,
                           [post |-> filtered_posts[send_i], ok |-> outcome = "200"])
          /\ send_i' = AfterPost(send_i, outcome)
    /\ UNCHANGED << pc, creds, crashed, keywords, max_results, collectVars, scoreVars, reported >>

\* line 164, after send_to_slack has returned (it returns None)
SendDone ==
    /\ pc = "Notifying"
    /\ send_i > Len(filtered_posts)
    /\ reported' = Len(filtered_posts)
    /\ pc' = "Done"
    /\ UNCHANGED << creds, crashed, keywords, max_results, collectVars, scoreVars, send_i, attempts >>

Next ==
    \/ Start
    \/ SetupFails
    \/ FetchSub
    \/ NoMatches
    \/ CallFilter
    \/ ScoreOne
    \/ Rank
    \/ CallSend
    \/ NoneSelected
    \/ SendOne
    \/ SendDone

\* a run of main()
Spec == Init /\ [][Next]_vars

\* a run of main() that is not stopped from outside: the interpreter executes
\* the next statement, and every call to Reddit, to the oracle and to Slack
\* returns or raises
SpecLive == Init /\ [][Next]_vars /\ WF_vars(Next)

\* ------------------------------------------------------------------------
\* main() configured with a small MAX_POSTS_PER_DAY
\* ------------------------------------------------------------------------

InitCap ==
    /\ pc = "Idle"
    /\ creds \in Credentials
    /\ crashed = FALSE
    /\ keywords = KEYWORDS
    /\ max_results = RunCap
    /\ sub_i = 1
    /\ fetchLog = <<>>
    /\ all_matches = <<>>
    /\ score_i = 1
    /\ scores = <<>>
    /\ response = NoResponse
    /\ scored = <<>>
    /\ filtered_posts = <<>>
    /\ send_i = 1
    /\ attempts = <<>>
    /\ reported = -1

SpecCap == InitCap /\ [][Next]_vars

\* ------------------------------------------------------------------------
\* fetch_matching_posts under any keyword vocabulary
\* ------------------------------------------------------------------------

KeywordPool == { <<"a", "r", "t">>, <<"A", "r", "t">>, <<"r", "u", "g">> }

InitFetch ==
    /\ pc = "Collecting"
    /\ creds = "valid"
    /\ crashed = FALSE
    /\ keywords \in SUBSET KeywordPool
    /\ max_results = MAX_POSTS_PER_DAY
    /\ sub_i = 1
    /\ fetchLog = <<>>
    /\ all_matches = <<>>
    /\ score_i = 1
    /\ scores = <<>>
    /\ response = NoResponse
    /\ scored = <<>>
    /\ filtered_posts = <<>>
    /\ send_i = 1
    /\ attempts = <<>>
    /\ reported = -1

NextFetch == FetchSub

SpecFetch == InitFetch /\ [][NextFetch]_vars

\* ------------------------------------------------------------------------
\* filter_with_ai under any candidate list and any cap
\* ------------------------------------------------------------------------

CandidatePool ==
    { MakeMatch(post, SUBREDDITS[1]) :
        post \in {p \in PostPool : AnyKeywordIn(PostText(p), KEYWORDS)} }

CandidateLists == UNION { [1..len -> CandidatePool] : len \in 0..MaxCands }

InitFilter ==
    /\ pc = "Scoring"
    /\ creds = "valid"
    /\ crashed = FALSE
    /\ keywords = KEYWORDS
    /\ max_results \in 0..MaxCap
    /\ sub_i = 1
    /\ fetchLog = <<>>
    /\ all_matches \in CandidateLists
    /\ score_i = 1
    /\ scores = <<>>
    /\ response = NoResponse
    /\ scored = <<>>
    /\ filtered_posts = <<>>
    /\ send_i = 1
    /\ attempts = <<>>
    /\ reported = -1

NextFilter ==
    \/ ScoreOne
    \/ Rank

SpecFilter == InitFilter /\ [][NextFilter]_vars

\* ------------------------------------------------------------------------
\* Properties
\* ------------------------------------------------------------------------

\* the scale the scoring prompt asks the oracle to answer on
MaxScale == 10

\* kw is a substring of text when letter case is ignored on both sides
ContainsIgnoringCase(kw, text) == Contains(Lower(kw), Lower(text))

\* some keyword of kws is a case-insensitive substring of title + " " + body
\* for every post of the pool, the keywords (of those a run can be given) that
\* are case-insensitive substrings of its title + " " + body
MatchingKeywords ==
    [ post \in PostPool |->
        { kw \in KeywordPool \cup KEYWORDS :
            ContainsIgnoringCase(kw, post.title \o <<" ">> \o post.selftext) } ]

KeywordMatches(post, kws) == \E kw \in kws : kw \in MatchingKeywords[post]

\* the link a candidate made from the post must carry, for each post of the
\* pool
FullLink ==
    [ post \in PostPool |-> <<"https://reddit.com">> \o post.permalink ]

\* the list ms holds a candidate made from post
HasCandidate(ms, post) ==
    \E c \in 1..Len(ms) :
        /\ ms[c].permalink = FullLink[post]
        /\ ms[c].title = post.title

\* the candidates of all_matches that come from subreddit sub
FromSub(sub) == SelectSeq(all_matches, LAMBDA m : m.subreddit = sub)

\* positions of the candidates scored above 0
Positive == {n \in 1..Len(scores) : scores[n] > 0}

\* filter_with_ai has returned
Ranked == pc \in {"Selecting", "Notifying", "Done"} /\ score_i > Len(all_matches)

Min(a, b) == IF a < b THEN a ELSE b

\* C1: every post that fetch_matching_posts iterates over yields a candidate
\* if and only if some keyword, of whatever letter case, is a case-insensitive
\* substring of its title + " " + body.
C1_CandidateIffKeywordInText ==
    \A n \in 1..Len(fetchLog) :
        \A m \in 1..fetchLog[n].seen :
            HasCandidate(FromSub(fetchLog[n].sub), fetchLog[n].hot[m])
                <=> KeywordMatches(fetchLog[n].hot[m], keywords)

\* C2: every score that score_post_with_ai returns is an integer of
\* 0..MaxScale, whatever the oracle does.
C2_ScoreWithinScale ==
    \A n \in 1..Len(scores) : scores[n] \in 0..MaxScale

\* C3: the selection filter_with_ai returns is no longer than the cap and
\* holds no candidate scored 0.
C3_SelectionWithinCapWithoutZero ==
    Ranked =>
        /\ Len(filtered_posts) <= max_results
        /\ \A n \in 1..Len(filtered_posts) : scores[filtered_posts[n]] > 0

\* a candidate scored 0 is left out although the cap is not reached
C3_Witness ==
    /\ Ranked
    /\ filtered_posts # <<>>
    /\ Len(filtered_posts) < max_results
    /\ \E n \in 1..Len(scores) : scores[n] = 0

\* C4: two selected candidates of equal score stand in the selection in the
\* order in which they stood in the input list.
C4_EqualScoresKeepInputOrder ==
    Ranked =>
        \A a, b \in 1..Len(filtered_posts) :
            (a < b /\ scores[filtered_posts[a]] = scores[filtered_posts[b]])
                => filtered_posts[a] < filtered_posts[b]

\* two selected candidates of equal score precede, in the input, a selected
\* candidate of higher score, so that the sort has moved them
C4_Witness ==
    /\ Ranked
    /\ \E a, b, hi \in 1..Len(filtered_posts) :
          /\ a < b
          /\ scores[filtered_posts[a]] = scores[filtered_posts[b]]
          /\ filtered_posts[hi] > filtered_posts[b]
          /\ scores[filtered_posts[hi]] > scores[filtered_posts[b]]

\* C5: the selection is the top of the ranking: in non-increasing score order,
\* of length min(cap, number of candidates scored above 0), made of distinct
\* candidates scored above 0, and no such candidate left out has a score
\* greater than one that is in.
C5_SelectionIsTopOfRanking ==
    Ranked =>
        /\ \A a, b \in 1..Len(filtered_posts) :
              a < b => /\ scores[filtered_posts[a]] >= scores[filtered_posts[b]]
                       /\ filtered_posts[a] # filtered_posts[b]
        /\ Len(filtered_posts) = Min(max_results, Cardinality(Positive))
        /\ \A n \in 1..Len(filtered_posts) : filtered_posts[n] \in Positive
        /\ \A out \in Positive :
              (\A n \in 1..Len(filtered_posts) : filtered_posts[n] # out)
                  => \A n \in 1..Len(filtered_posts) :
                        scores[out] <= scores[filtered_posts[n]]

\* the cap cuts a ranking of candidates whose scores differ, given in an
\* order that is not the ranking's
C5_Witness ==
    /\ Ranked
    /\ Len(filtered_posts) = max_results
    /\ Len(filtered_posts) >= 2
    /\ Cardinality(Positive) > max_results
    /\ \E a, b \in Positive : a < b /\ scores[a] < scores[b]
    /\ scores[filtered_posts[1]] > scores[filtered_posts[Len(filtered_posts)]]

\* C6: whichever fetches fail, every configured subreddit is fetched, in turn,
\* before the run goes on, and every keyword-matching post of a subreddit
\* whose fetch did not fail is in the collected list.
C6_FailuresAreIsolated ==
    /\ Len(fetchLog) = sub_i - 1
    /\ pc \notin {"Idle", "Collecting"} => Len(fetchLog) = Len(SUBREDDITS)
    /\ \A n \in 1..Len(fetchLog) :
          /\ fetchLog[n].sub = SUBREDDITS[n]
          /\ ~fetchLog[n].failed =>
                LET kept == FromSub(fetchLog[n].sub)
                IN  \A m \in 1..Len(HotListing(fetchLog[n].hot)) :
                        KeywordMatches(fetchLog[n].hot[m], keywords)
                            => HasCandidate(kept, fetchLog[n].hot[m])

\* the first fetch failed, the second one did not and its match is collected
C6_Witness ==
    /\ pc = "Scoring"
    /\ fetchLog[1].failed
    /\ ~fetchLog[2].failed
    /\ FromSub(fetchLog[2].sub) # <<>>

\* C7: a subreddit whose fetch failed contributes no candidate to the
\* collected list, also when it failed after some of its posts had matched.
C7_FailedSourceContributesNothing ==
    \A n \in 1..Len(fetchLog) :
        fetchLog[n].failed => FromSub(fetchLog[n].sub) = <<>>

\* C8: send_to_slack calls requests.post once for each selected post, in the
\* order of the selection, whatever the outcome of each call.
C8_OneAttemptPerItemInOrder ==
    /\ Len(attempts) <= Len(filtered_posts)
    /\ \A n \in 1..Len(attempts) : attempts[n].post = filtered_posts[n]
    /\ pc = "Notifying" => Len(attempts) = send_i - 1
    /\ pc = "Done" => Len(attempts) = Len(filtered_posts)

\* three posts were selected, the second delivery failed, the first and the
\* third succeeded
C8_Witness ==
    /\ pc = "Done"
    /\ Len(attempts) = 3
    /\ attempts[1].ok
    /\ ~attempts[2].ok
    /\ attempts[3].ok

\* C9: the count the run reports as sent is the number of deliveries that
\* succeeded.
C9_ReportedCountIsSuccessCount ==
    reported # -1 =>
        reported = Cardinality({n \in 1..Len(attempts) : attempts[n].ok})

\* C10: a run that collects no candidate asks the oracle nothing and delivers
\* nothing; a run in which no candidate is scored above 0 selects nothing and
\* delivers nothing.
C10_ShortCircuit ==
    /\ all_matches = <<>> =>
          /\ pc \in {"Idle", "Collecting", "Done"}
          /\ scores = <<>>
          /\ attempts = <<>>
    /\ (Ranked /\ Positive = {}) =>
          /\ filtered_posts = <<>>
          /\ attempts = <<>>
          /\ pc # "Notifying"

\* the oracle gave every one of two or more candidates the score 0, and the
\* run is over
C10_Witness ==
    /\ pc = "Done"
    /\ Len(all_matches) >= 2
    /\ Len(scores) = Len(all_matches)
    /\ Positive = {}

\* C11: with Reddit credentials that are unusable for any call, the run is
\* aborted before any fetch: fetch_matching_posts is never called, no fetch
\* failure is logged for a subreddit, and the run does not go on to its end.
C11_FatalSetupErrorAborts ==
    creds # "valid" =>
        /\ fetchLog = <<>>
        /\ pc \in {"Idle", "Collecting"}

\* the order of the calls: a fetch is made only while collecting and before
\* any oracle request, an oracle request only while scoring and before any
\* delivery, a delivery only while notifying
CallsInStageOrder ==
    /\ fetchLog' # fetchLog =>
          pc = "Collecting" /\ pc' = "Collecting" /\ scores = <<>> /\ attempts = <<>>
    /\ scores' # scores =>
          pc = "Scoring" /\ pc' = "Scoring" /\ attempts = <<>>
    /\ attempts' # attempts =>
          pc = "Notifying" /\ pc' = "Notifying"

\* the transitions the claim lists
ListedTransitions ==
    { <<"Idle", "Collecting">>, <<"Collecting", "Scoring">>,
      <<"Scoring", "Selecting">>, <<"Selecting", "Notifying">>,
      <<"Notifying", "Done">>,
      <<"Collecting", "Done">>, <<"Scoring", "Done">> }

\* the transitions main() makes: the early exit of an empty selection is
\* taken after the ranking, not before it
MadeTransitions ==
    { <<"Idle", "Collecting">>, <<"Collecting", "Scoring">>,
      <<"Scoring", "Selecting">>, <<"Selecting", "Notifying">>,
      <<"Notifying", "Done">>,
      <<"Collecting", "Done">>, <<"Selecting", "Done">> }

\* C12 as claimed: the stage changes only along Idle -> Collecting -> Scoring
\* -> Selecting -> Notifying -> Done, Collecting -> Done and Scoring -> Done,
\* and every fetch precedes every oracle request, which precedes every
\* delivery.
C12_OnlyListedTransitions ==
    [][ /\ pc' # pc => <<pc, pc'>> \in ListedTransitions
        /\ CallsInStageOrder ]_vars

\* C12 as amended: the same, with the early exit of a run in which no
\* candidate is selected taken from Selecting (Selecting -> Done) instead of
\* from Scoring.
C12_OnlyMadeTransitions ==
    [][ /\ pc' # pc => <<pc, pc'>> \in MadeTransitions
        /\ CallsInStageOrder ]_vars

\* a run went through every stage: a fetch failed, an oracle request gave 0,
\* two posts were delivered
C12_Witness ==
    /\ pc = "Done"
    /\ \E n \in 1..Len(fetchLog) : fetchLog[n].failed
    /\ \E n \in 1..Len(scores) : scores[n] = 0
    /\ Len(attempts) >= 2

\* C13: whatever fetches, oracle requests and deliveries fail, a run that got
\* past the setup reaches Done.
C13_RunReachesDone == (creds # "missing") => <>(pc = "Done")

\* a run reached Done although a fetch, an oracle request and a delivery
\* failed
C13_Witness ==
    /\ pc = "Done"
    /\ \E n \in 1..Len(fetchLog) : fetchLog[n].failed
    /\ \E n \in 1..Len(scores) : scores[n] = 0
    /\ \E n \in 1..Len(attempts) : ~attempts[n].ok

\* the decimal digits 0-9 of a text, in order
DecimalDigitsOf(text) == SelectSeq(text, LAMBDA c : c \in {"0", "1", "2", "3", "4", "5", "6", "7", "8", "9"})

\* the number a string of decimal digits denotes, read from the left
NumberOf(digits) ==
    LET RECURSIVE Read(_, _)
        Read(n, acc) ==
            IF n > Len(digits)
            THEN acc
            ELSE Read(n + 1, 10 * acc + DigitValue(digits[n]))
    IN  Read(1, 0)

\* the text holds a digit character that is no decimal digit
HoldsOtherDigit(text) == \E n \in 1..Len(text) : text[n] \in OtherDigitChars

\* the latest request failed, or its answer cannot be read as a number
RequestUnusable ==
    \/ response.kind \in {"raise", "none"}
    \/ /\ response.kind = "text"
       /\ \/ DecimalDigitsOf(response.content) = <<>>
          \/ HoldsOtherDigit(response.content)

\* C14: filter_with_ai makes one oracle request for each collected candidate,
\* in collection order, whatever the requests' outcomes: after the request
\* for candidate n exactly n scores have been returned, the score kept for a
\* candidate is the one its own request returned, and a request that failed
\* or whose answer cannot be read gives its candidate the score 0 and is not
\* made again.
C14_OneRequestPerCandidate ==
    /\ pc \in {"Idle", "Collecting"} => scores = <<>>
    /\ pc = "Scoring" => Len(scores) = score_i - 1 /\ score_i <= Len(all_matches) + 1
    /\ Ranked => Len(scores) = Len(all_matches)
    /\ \A n \in 1..Len(scored) :
          /\ scored[n].post \in 1..Len(scores)
          /\ scores[scored[n].post] = scored[n].score
          /\ \A k \in 1..Len(scored) : k < n => scored[k].post < scored[n].post
    /\ (pc = "Scoring" /\ RequestUnusable) =>
          /\ scores[Len(scores)] = 0
          /\ \A n \in 1..Len(scored) : scored[n].post # Len(scores)

\* the request for the second candidate raised after the first candidate was
\* scored above 0
C14_Witness ==
    /\ pc = "Scoring"
    /\ Len(scores) = 2
    /\ scores[1] > 0
    /\ response.kind = "raise"

\* C15 as claimed: the score of an answered request is the integer formed by
\* the decimal digits of the answer in order, and is 0 exactly when the answer
\* holds no digit or its digits denote zero.
C15_ScoreIsDigitsOfResponse ==
    (pc = "Scoring" /\ response.kind = "text") =>
        LET digits == DecimalDigitsOf(response.content)
            score  == scores[Len(scores)]
        IN  /\ score = NumberOf(digits)
            /\ score = 0 <=> (digits = <<>> \/ NumberOf(digits) = 0)

\* C15 as amended: the same for an answer whose digit characters are all
\* decimal digits; an answer that holds a digit character int() rejects
\* (such as a superscript two) gives 0.
C15_ScoreIsDigitsOfDecimalResponse ==
    (pc = "Scoring" /\ response.kind = "text") =>
        LET digits == DecimalDigitsOf(response.content)
            score  == scores[Len(scores)]
        IN  IF HoldsOtherDigit(response.content)
            THEN score = 0
            ELSE /\ score = NumberOf(digits)
                 /\ score = 0 <=> (digits = <<>> \/ NumberOf(digits) = 0)

\* the answer "7/10" was read as 710
C15_Witness ==
    /\ pc = "Scoring"
    /\ response = OracleSays(<<"7", "/", "1", "0">>)
    /\ scores[Len(scores)] = 710

\* the posts a fetch got from its subreddit, in the order of the listing, that
\* match a keyword: each with the subreddit it was found in
FoundBy(entry) ==
    LET got   == SubSeq(HotListing(entry.hot), 1, entry.seen)
        found == SelectSeq(got, LAMBDA post : KeywordMatches(post, keywords))
    IN  [n \in 1..Len(found) |-> [sub |-> entry.sub, post |-> found[n]]]

\* the same for all the fetches made so far, one subreddit after the other
RECURSIVE FoundUpTo(_)
FoundUpTo(n) == IF n = 0 THEN <<>> ELSE FoundUpTo(n - 1) \o FoundBy(fetchLog[n])

\* C16: the collected list is, subreddit after subreddit in the configured
\* order, the matching posts of each subreddit in the order of its listing,
\* with nothing removed or reordered; a post found in two subreddits is
\* collected twice.
C16_CollectedIsConcatenation ==
    LET found == FoundUpTo(Len(fetchLog))
    IN  /\ \A n \in 1..Len(fetchLog) : fetchLog[n].sub = SUBREDDITS[n]
        /\ Len(all_matches) = Len(found)
        /\ \A n \in 1..Len(found) :
              /\ all_matches[n].subreddit = found[n].sub
              /\ all_matches[n].title = found[n].post.title
              /\ all_matches[n].url = found[n].post.url
              /\ all_matches[n].permalink = FullLink[found[n].post]

\* the same post was found in two subreddits and is collected twice, after
\* another match of the first subreddit
C16_Witness ==
    /\ pc = "Scoring"
    /\ Len(all_matches) = 3
    /\ all_matches[1].permalink # all_matches[2].permalink
    /\ all_matches[2].permalink = all_matches[3].permalink
    /\ all_matches[2].subreddit # all_matches[3].subreddit

\* the candidate was made, in this run, from a post of its subreddit that
\* matches a keyword
CollectedAsMatch(candidate) ==
    \E n \in 1..Len(fetchLog) :
        /\ fetchLog[n].sub = candidate.subreddit
        /\ \E m \in 1..fetchLog[n].seen :
              /\ candidate.permalink = FullLink[fetchLog[n].hot[m]]
              /\ KeywordMatches(fetchLog[n].hot[m], keywords)

\* C17: every delivery attempt is for a candidate that this run collected as
\* a keyword match and that the oracle scored above 0 in this run; there are
\* never more attempts than the cap nor than collected candidates, and the
\* attempts are made in non-increasing score order.
C17_AttemptsAreSelectedMatches ==
    /\ Len(attempts) <= max_results
    /\ Len(attempts) <= Len(all_matches)
    /\ \A n \in 1..Len(attempts) :
          /\ attempts[n].post \in 1..Len(all_matches)
          /\ CollectedAsMatch(all_matches[attempts[n].post])
          /\ attempts[n].post \in 1..Len(scores)
          /\ scores[attempts[n].post] > 0
    /\ \A a, b \in 1..Len(attempts) :
          a < b => scores[attempts[a].post] >= scores[attempts[b].post]

\* more candidates were scored above 0 than the cap allows, the run is over
\* and has made as many attempts as the cap, the best scored first
C17_Witness ==
    /\ pc = "Done"
    /\ Cardinality(Positive) > max_results
    /\ Len(attempts) = max_results
    /\ scores[attempts[1].post] > scores[attempts[Len(attempts)].post]

====
